---- MODULE Spec2Model ----
(***************************************************************************)
(* Model of the L2 -> L1 message relayer                                   *)
(* (packages/message-relayer/src/service/message-relayer.service.ts) with  *)
(* the L1 state commitment chain, the L1 messenger and the L2 messenger    *)
(* it talks to.                                                            *)
(***************************************************************************)
EXTENDS Integers, Sequences, FiniteSets, TLC

\* ------------------------------------------------------------------ bounds
MaxL2Blocks == 3        \* L2 heights 0 .. MaxL2Blocks-1 get mined
MaxMsgs == 2            \* SentMessage events emitted on L2
MaxMsgsPerBlock == 2    \* SentMessage events emitted by one L2 block
MaxBatchSize == 3       \* state roots per appended batch
MaxTime == 2            \* L1 clock stops here
FraudProofWindow == 1   \* the chain's FRAUD_PROOF_WINDOW, scaled down
MaxFail == 1            \* injected RPC / transaction faults
MaxRestarts == 1        \* process restarts

Relayers == {1}

\* values of options.l2ChainStartingHeight: <<>> is "not configured"
StartingHeights == {<<>>, <<-1>>, <<0>>, <<1>>}
BlockOffsets == {1}
\* values of options.pollingInterval: <<>> is "not configured"
PollingIntervals == {<<>>}

VARIABLES
  l1Time,                  \* L1 block.timestamp
  batches,                 \* StateBatchAppended events, in append order
  l2Blocks,                \* number of L2 elements mined (heights 0..l2Blocks-1)
  l2Logs,                  \* SentMessage events of the L2 messenger, in (blockNumber, logIndex) order
  successfulMessages,      \* L1 messenger: hashes with successfulMessages[hash] = true
  options,                 \* the service's options (l2ChainStartingHeight, blockOffset)
  pc,                      \* position of each relayer in _init / _start
  running,                 \* BaseService.running
  lastFinalizedTxHeight,
  nextUnfinalizedTxHeight,
  messages,                \* rest of the `messages` array the for-loop iterates
  proof,                   \* `proof` of the message being handled
  handled,                 \* history: messages handled so far in this tick, with outcome
  submitted,               \* history: relayMessage transactions sent per message, this process
  relayCalls,              \* history: every call of _relayMessageToL1 (sent: a transaction went out)
  pending,                 \* relayMessage transactions sent and not yet mined
  lastTick,                \* history: how the previous tick ended
  scanned,                 \* history: heights inside the scan range of some tick of this process
  relayedCount,            \* history: relayMessage transactions the L1 messenger accepted, per message
  failures,                \* injected faults so far
  restarts,                \* restarts so far
  proofRequests,           \* history: eth_getProof requests sent, with their block tag
  jumped,                  \* history: the batches the advance loop of the tick has fetched, in order
  warnings,                \* history: warnings _sanityChecks has logged, per process
  subOptions,              \* state batch submitter: maxBatchSize, maxTxSize, minTxSize
  subPc,                   \* state batch submitter: position in its submission round
  batchRange,              \* state batch submitter: the Range of _getBatchStartAndEnd (<<>>: none)
  stateBatch,              \* state batch submitter: `batch` of _generateStateCommitmentBatch
  lastSubmit               \* history: how the submitter's last round ended

envVars == <<l1Time, batches, l2Blocks, l2Logs>>
cursorVars == <<lastFinalizedTxHeight, nextUnfinalizedTxHeight>>
histVars == <<handled, submitted, relayCalls, lastTick, scanned, relayedCount>>
txVars == <<submitted, relayCalls, pending>>
subVars == <<subOptions, subPc, batchRange, stateBatch, lastSubmit>>
auxVars == <<proofRequests, jumped, warnings, subVars>>
vars == <<l1Time, batches, l2Blocks, l2Logs, successfulMessages, options, pc,
          running, lastFinalizedTxHeight, nextUnfinalizedTxHeight, messages,
          proof, handled, submitted, relayCalls, pending, lastTick, scanned,
          relayedCount, failures, restarts, proofRequests, jumped, warnings,
          subOptions, subPc, batchRange, stateBatch, lastSubmit>>

MsgIds == 1..MaxMsgs
NoProof == <<>>

\* ---------------------------------------------------------------- helpers
Min(S) == CHOOSE x \in S : \A y \in S : x <= y

\* `x || 0` on an optional number
OrZero(opt) == IF opt = <<>> THEN 0 ELSE opt[1]

\* `x || d` on an optional number: undefined and 0 both give d
OrDefault(opt, d) == IF opt = <<>> \/ opt[1] = 0 THEN d ELSE opt[1]

\* `options.l2ChainStartingHeight < 0` (undefined < 0 is false)
StartingHeightNegative(opt) == IF opt = <<>> THEN FALSE ELSE opt[1] < 0

blockOffset == options.blockOffset

\* this.pollingInterval = this.options.pollingInterval || 5000
pollingInterval == OrDefault(options.pollingInterval, 5000)

\* the condition of the polling-interval warning of _sanityChecks
PollingIntervalWarned(interval) == interval < 15000 \/ interval > 60000

\* BigNumber.toHexString() of n >= 0: the hex digits, most significant first,
\* padded with a zero digit to whole bytes
RECURSIVE HexDigits(_)
HexDigits(n) == IF n < 16 THEN <<n>> ELSE HexDigits(n \div 16) \o <<n % 16>>

ToHexString(n) == IF Len(HexDigits(n)) % 2 = 1 THEN <<0>> \o HexDigits(n) ELSE HexDigits(n)

\* the number a node reads from a hex block tag
RECURSIVE HexValue(_)
HexValue(digits) ==
  IF digits = <<>> THEN 0
  ELSE 16 * HexValue(SubSeq(digits, 1, Len(digits) - 1)) + digits[Len(digits)]

\* mutant: the block tag is the height, without the offset
BlockTagOf_NoOffset(message) == ToHexString(message.height)

\* the block tag of the eth_getProof request of _getMessageProof
BlockTagOf(message) == ToHexString(message.height + blockOffset)

TotalElements == IF batches = <<>> THEN 0
                 ELSE batches[Len(batches)].prevTotalElements + batches[Len(batches)].batchSize

\* mutant: the covering range takes in its upper end
Covers_Inclusive(event, height) ==
  /\ event.prevTotalElements <= height
  /\ event.prevTotalElements + event.batchSize >= height

\* the predicate of events.find in _getStateBatchHeader
Covers(event, height) ==
  /\ event.prevTotalElements <= height
  /\ event.prevTotalElements + event.batchSize > height

\* interface.decodeFunctionData('appendStateBatch', transaction.data): [stateRoots]
DecodeAppendStateBatch(data) == data.stateRoots

\* _getStateBatchHeader: <<>> is undefined, <<header>> the header found.
\* events.find takes the first event that covers the height; the header's
\* timestamp stands for extraData, which carries it.
GetStateBatchHeader(height) ==
  LET hits == {i \in 1..Len(batches) : Covers(batches[i], height)}
  IN IF hits = {} THEN <<>>
     ELSE LET event == batches[Min(hits)]
          IN <<[batchIndex |-> event.batchIndex,
                batchSize |-> event.batchSize,
                prevTotalElements |-> event.prevTotalElements,
                timestamp |-> event.timestamp,
                stateRoots |-> DecodeAppendStateBatch(event.transaction)]>>

\* OVM_StateCommitmentChain.insideFraudProofWindow
InsideFraudProofWindow(batch) == batch.timestamp + FraudProofWindow > l1Time

\* mutant: a batch exactly at the window boundary does not count as finalized
IsTransactionFinalized_PastBoundary(height) ==
  LET batch == GetStateBatchHeader(height)
  IN IF batch = <<>> THEN FALSE ELSE batch[1].timestamp + FraudProofWindow < l1Time

\* _isTransactionFinalized
IsTransactionFinalized(height) ==
  LET batch == GetStateBatchHeader(height)
  IN IF batch = <<>> THEN FALSE ELSE ~InsideFraudProofWindow(batch[1])

\* provider.getLogs behind Contract.queryFilter(filter, fromBlock, toBlock):
\* both block bounds are inclusive
QueryFilter(logs, fromBlock, toBlock) ==
  SelectSeq(logs, LAMBDA e : fromBlock <= e.blockNumber /\ e.blockNumber <= toBlock)

\* interface.decodeFunctionData('relayMessage', message) throws for one of the
\* events of the range: events.map, and with it _getSentMessages, throws
DecodeThrows(startHeight, endHeight) ==
  LET events == QueryFilter(l2Logs, startHeight + blockOffset, endHeight + blockOffset)
  IN \E i \in 1..Len(events) : ~events[i].wellFormed

\* mutant: the events come back newest first
GetSentMessages_Reversed(startHeight, endHeight) ==
  LET events == QueryFilter(l2Logs, startHeight + blockOffset, endHeight + blockOffset)
  IN [i \in 1..Len(events) |->
        [hash |-> events[Len(events) + 1 - i].message,
         height |-> events[Len(events) + 1 - i].blockNumber - blockOffset]]

\* _getSentMessages
GetSentMessages(startHeight, endHeight) ==
  LET events == QueryFilter(l2Logs, startHeight + blockOffset, endHeight + blockOffset)
  IN [i \in 1..Len(events) |->
        [hash |-> events[i].message, height |-> events[i].blockNumber - blockOffset]]

\* mutant: the dedup check never reports a relayed message
WasMessageRelayed_Never(message) == message.hash \in {}

\* _wasMessageRelayed
WasMessageRelayed(message) == message.hash \in successfulMessages

\* '0x' + '00'.repeat(32)
Zero32 == 0

\* ethers.utils.keccak256, kept symbolic: two inputs hash alike only if equal
Keccak256(el) == <<"keccak256", el>>

\* Buffer.concat([left, right]) of two 32-byte nodes
Concat(left, right) == <<left, right>>

\* Math.ceil(Math.log2(n)) for n >= 1
RECURSIVE CeilLog2(_)
CeilLog2(n) == IF n <= 1 THEN 0 ELSE 1 + CeilLog2((n + 1) \div 2)

\* Math.pow(2, Math.ceil(Math.log2(n))); log2(0) is -Infinity and 2^-Infinity is 0
PaddedLength(n) == IF n = 0 THEN 0 ELSE 2 ^ CeilLog2(n)

\* mutant: the batch is not padded
Elements_Unpadded(stateRoots) == stateRoots

\* the `elements` loop of _getMessageProof (positions are 1-based here)
Elements(stateRoots) ==
  [i \in 1..PaddedLength(Len(stateRoots)) |->
     IF i <= Len(stateRoots) THEN stateRoots[i] ELSE Zero32]

\* mutant: the leaves are laid out last element first
Leaves_Reversed(elements) ==
  [i \in 1..Len(elements) |-> Keccak256(elements[Len(elements) + 1 - i])]

\* elements.map((element) => hash(element))
Leaves(elements) == [i \in 1..Len(elements) |-> Keccak256(elements[i])]

\* merkletreejs: the number of nodes of layer k over n leaves (each layer
\* halves the one below, an unpaired last node being carried up)
RECURSIVE LayerLength(_, _)
LayerLength(n, k) == IF k = 0 THEN n ELSE (LayerLength(n, k - 1) + 1) \div 2

\* merkletreejs: node j of layer k (both 0-based): hash(left || right) of its
\* two children, or the child itself where it has no pair
RECURSIVE Node(_, _, _)
Node(leaves, k, j) ==
  IF k = 0 THEN leaves[j + 1]
  ELSE IF 2 * j + 1 < LayerLength(Len(leaves), k - 1)
       THEN Keccak256(Concat(Node(leaves, k - 1, 2 * j), Node(leaves, k - 1, 2 * j + 1)))
       ELSE Node(leaves, k - 1, 2 * j)

\* new MerkleTree(leaves, hash): the layers, layer 0 the leaves, the last the root
MerkleTree(leaves) ==
  [k \in 0..CeilLog2(Len(leaves)) |->
     [j \in 0..(LayerLength(Len(leaves), k) - 1) |-> Node(leaves, k, j)]]

\* getProof, layer k: the node paired with the current one, if the layer has it
SiblingAt(layers, index, k) ==
  LET current == index \div (2 ^ k)
      pairIndex == IF current % 2 = 1 THEN current - 1 ELSE current + 1
  IN IF pairIndex \in DOMAIN layers[k] THEN <<layers[k][pairIndex]>> ELSE <<>>

RECURSIVE SiblingsFrom(_, _, _)
SiblingsFrom(layers, index, k) ==
  IF k \notin DOMAIN layers THEN <<>>
  ELSE SiblingAt(layers, index, k) \o SiblingsFrom(layers, index, k + 1)

\* mutant: the siblings come out top-down
RECURSIVE SiblingsFrom_TopDown(_, _, _)
SiblingsFrom_TopDown(layers, index, k) ==
  IF k \notin DOMAIN layers THEN <<>>
  ELSE SiblingsFrom_TopDown(layers, index, k + 1) \o SiblingAt(layers, index, k)

GetProof_TopDown(layers, index) ==
  IF index < 0 THEN <<>> ELSE SiblingsFrom_TopDown(layers, index, 0)

\* tree.getProof(leaf, index).map((element) => element.data): the siblings
\* bottom-up; index is 0-based
GetProof(layers, index) ==
  IF index < 0 THEN <<>> ELSE SiblingsFrom(layers, index, 0)

\* mutant: the index is taken from the start of the chain, not of the batch
BuildMessageProof_ChainIndex(message, batch) ==
  LET tree == MerkleTree(Leaves(Elements(batch.stateRoots)))
      index == message.height
  IN [stateRoot |-> batch.stateRoots[index - batch.prevTotalElements + 1],
      stateRootBatchHeader |-> batch,
      stateRootProof |-> [index |-> index, siblings |-> GetProof(tree, index)]]

\* _getMessageProof from `const elements = []` on, the batch header in hand;
\* stateTrieWitness and storageTrieWitness are the node's answer, passed through
BuildMessageProof(message, batch) ==
  LET tree == MerkleTree(Leaves(Elements(batch.stateRoots)))
      index == message.height - batch.prevTotalElements
  IN [stateRoot |-> batch.stateRoots[index + 1],
      stateRootBatchHeader |-> batch,
      stateRootProof |-> [index |-> index, siblings |-> GetProof(tree, index)]]

\* _getMessageProof once eth_getProof has answered: undefined when no batch
\* header is found, else the proof built from the header (looked up once)
GetMessageProof(message) ==
  LET found == GetStateBatchHeader(message.height)
  IN IF found = <<>> THEN NoProof
     ELSE <<CHOOSE prf \in {BuildMessageProof(message, batch) : batch \in {found[1]}} : TRUE>>

\* the root the chain commits to for a batch: the complete binary tree over
\* the hashed state roots, padded with hashed zero words to a power of two
RECURSIVE RootOf(_, _, _)
RootOf(nodes, first, count) ==
  IF count = 1 THEN nodes[first]
  ELSE Keccak256(Concat(RootOf(nodes, first, count \div 2),
                        RootOf(nodes, first + count \div 2, count \div 2)))

LeastPowerOfTwo(n) == Min({2 ^ k : k \in {j \in 0..n : 2 ^ j >= n}})

BatchRoot(stateRoots) ==
  RootOf([i \in 1..LeastPowerOfTwo(Len(stateRoots)) |->
            IF i <= Len(stateRoots) THEN Keccak256(stateRoots[i]) ELSE Keccak256(Zero32)],
         1, LeastPowerOfTwo(Len(stateRoots)))

\* the verifier's fold: the node is hashed with each sibling in turn, on the
\* side the bits of the index say
RECURSIVE FoldUp(_, _, _)
FoldUp(node, index, siblings) ==
  IF siblings = <<>> THEN node
  ELSE FoldUp(IF index % 2 = 1 THEN Keccak256(Concat(Head(siblings), node))
                               ELSE Keccak256(Concat(node, Head(siblings))),
              index \div 2, Tail(siblings))

\* OVM_L1CrossDomainMessenger.relayMessage: what the contract requires of a relay
RelayAccepted(message, prf) ==
  /\ prf # NoProof
  /\ prf[1].stateRootBatchHeader.batchIndex \in 1..Len(batches)
  /\ LET batch == batches[prf[1].stateRootBatchHeader.batchIndex] IN
       /\ Covers(batch, message.height)
       /\ prf[1].stateRootProof.index = message.height - batch.prevTotalElements
       /\ FoldUp(Keccak256(prf[1].stateRoot), prf[1].stateRootProof.index,
                 prf[1].stateRootProof.siblings) = BatchRoot(batch.transaction.stateRoots)
       /\ ~InsideFraudProofWindow(batch)
  /\ message.hash \notin successfulMessages

\* ------------------------------------------------------------------- Init
\* a state batch submitter that is configured and never run
IdleSubmitter ==
  [maxBatchSize |-> MaxBatchSize, maxTxSize |-> 0, minTxSize |-> 0, BLOCK_OFFSET |-> 1]

\* everything but the options and the length of the L2 chain, for the relayer
\* processes R: services constructed and not started, nothing appended or relayed
StartState(R) ==
  /\ l1Time = 0
  /\ batches = <<>>
  /\ l2Logs = <<>>
  /\ successfulMessages = {}
  /\ pc = [r \in R |-> "new"]
  /\ running = [r \in R |-> FALSE]
  /\ lastFinalizedTxHeight = [r \in R |-> 0]
  /\ nextUnfinalizedTxHeight = [r \in R |-> 0]
  /\ messages = [r \in R |-> <<>>]
  /\ proof = [r \in R |-> NoProof]
  /\ handled = [r \in R |-> <<>>]
  /\ submitted = [r \in R |-> [m \in MsgIds |-> 0]]
  /\ relayCalls = {}
  /\ pending = {}
  /\ lastTick = [r \in R |-> "none"]
  /\ scanned = [r \in R |-> {}]
  /\ relayedCount = [m \in MsgIds |-> 0]
  /\ failures = 0
  /\ restarts = 0
  /\ proofRequests = {}
  /\ jumped = [r \in R |-> <<>>]
  /\ warnings = [r \in R |-> {}]
  /\ subPc = "idle"
  /\ batchRange = <<>>
  /\ stateBatch = <<>>
  /\ lastSubmit = "none"

Init ==
  /\ options \in [l2ChainStartingHeight : StartingHeights, blockOffset : BlockOffsets,
                   pollingInterval : PollingIntervals]
  /\ l2Blocks = 0
  /\ subOptions = IdleSubmitter
  /\ StartState(Relayers)

\* ------------------------------------------------------------ environment
\* one L2 block is mined; it emits k SentMessage events
L2Mine(k) ==
  /\ l2Blocks < MaxL2Blocks
  /\ Len(l2Logs) + k <= MaxMsgs
  /\ l2Blocks' = l2Blocks + 1
  /\ l2Logs' = l2Logs \o [i \in 1..k |->
                 [message |-> Len(l2Logs) + i, blockNumber |-> l2Blocks + blockOffset,
                  logIndex |-> i - 1, wellFormed |-> TRUE]]
  /\ UNCHANGED <<l1Time, batches, successfulMessages, options, pc, running, cursorVars,
                 messages, proof, histVars, pending, failures, restarts, auxVars>>

\* one L2 block is mined whose only SentMessage event carries a payload that is
\* not the encoding of a relayMessage call
L2MineMalformed ==
  /\ l2Blocks < MaxL2Blocks
  /\ Len(l2Logs) + 1 <= MaxMsgs
  /\ l2Blocks' = l2Blocks + 1
  /\ l2Logs' = Append(l2Logs, [message |-> Len(l2Logs) + 1,
                                blockNumber |-> l2Blocks + blockOffset,
                                logIndex |-> 0, wellFormed |-> FALSE])
  /\ UNCHANGED <<l1Time, batches, successfulMessages, options, pc, running, cursorVars,
                 messages, proof, histVars, pending, failures, restarts, auxVars>>

\* the state root of the L2 chain after the element at a height
StateRootAt(height) == height + 1

\* OVM_StateCommitmentChain.appendStateBatch: the StateBatchAppended event, with
\* the calldata of the transaction that emitted it
AppendStateBatch(size) ==
  /\ TotalElements + size <= l2Blocks
  /\ batches' = Append(batches, [batchIndex |-> Len(batches) + 1,
                                 batchSize |-> size,
                                 prevTotalElements |-> TotalElements,
                                 timestamp |-> l1Time,
                                 transaction |->
                                   [stateRoots |-> [j \in 1..size |->
                                                      StateRootAt(TotalElements + j - 1)],
                                    shouldStartAtElement |-> TotalElements]])
  /\ UNCHANGED <<l1Time, l2Blocks, l2Logs, successfulMessages, options, pc, running,
                 cursorVars, messages, proof, histVars, pending, failures, restarts, auxVars>>

AdvanceTime ==
  /\ l1Time < MaxTime
  /\ l1Time' = l1Time + 1
  /\ UNCHANGED <<batches, l2Blocks, l2Logs, successfulMessages, options, pc, running,
                 cursorVars, messages, proof, histVars, pending, failures, restarts, auxVars>>

\* ---------------------------------------------------------------- relayer
\* mutant: nextUnfinalizedTxHeight is left at 0 instead of the starting height
InitService_NextFromZero(r) ==
  /\ pc[r] = "new"
  /\ lastFinalizedTxHeight' =
       [lastFinalizedTxHeight EXCEPT ![r] = OrZero(options.l2ChainStartingHeight)]
  /\ nextUnfinalizedTxHeight' = [nextUnfinalizedTxHeight EXCEPT ![r] = 0]
  /\ IF StartingHeightNegative(options.l2ChainStartingHeight)
     THEN /\ pc' = [pc EXCEPT ![r] = "initFailed"]
          /\ UNCHANGED <<running, warnings>>
     ELSE /\ pc' = [pc EXCEPT ![r] = "loop"]
          /\ running' = [running EXCEPT ![r] = TRUE]
          /\ warnings' = [warnings EXCEPT
                ![r] = IF PollingIntervalWarned(pollingInterval)
                       THEN {"pollingInterval"} ELSE {}]
  /\ UNCHANGED <<envVars, successfulMessages, options, messages, proof, histVars, pending,
                 failures, restarts, proofRequests, jumped, subVars>>

\* mutant: _sanityChecks does not look at l2ChainStartingHeight
InitService_NoHeightCheck(r) ==
  /\ pc[r] = "new"
  /\ lastFinalizedTxHeight' =
       [lastFinalizedTxHeight EXCEPT ![r] = OrZero(options.l2ChainStartingHeight)]
  /\ nextUnfinalizedTxHeight' =
       [nextUnfinalizedTxHeight EXCEPT ![r] = OrZero(options.l2ChainStartingHeight)]
  /\ pc' = [pc EXCEPT ![r] = "loop"]
  /\ running' = [running EXCEPT ![r] = TRUE]
  /\ warnings' = [warnings EXCEPT
        ![r] = IF PollingIntervalWarned(pollingInterval) THEN {"pollingInterval"} ELSE {}]
  /\ UNCHANGED <<envVars, successfulMessages, options, messages, proof, histVars, pending,
                 failures, restarts, proofRequests, jumped, subVars>>

\* BaseService.start(): mark the service running, then _init (with _sanityChecks)
InitService(r) ==
  /\ pc[r] = "new"
  /\ lastFinalizedTxHeight' =
       [lastFinalizedTxHeight EXCEPT ![r] = OrZero(options.l2ChainStartingHeight)]
  /\ nextUnfinalizedTxHeight' =
       [nextUnfinalizedTxHeight EXCEPT ![r] = OrZero(options.l2ChainStartingHeight)]
  /\ IF StartingHeightNegative(options.l2ChainStartingHeight)
     THEN /\ pc' = [pc EXCEPT ![r] = "initFailed"]
          /\ UNCHANGED <<running, warnings>>
     ELSE /\ pc' = [pc EXCEPT ![r] = "loop"]
          /\ running' = [running EXCEPT ![r] = TRUE]
          /\ warnings' = [warnings EXCEPT
                ![r] = IF PollingIntervalWarned(pollingInterval)
                       THEN {"pollingInterval"} ELSE {}]
  /\ UNCHANGED <<envVars, successfulMessages, options, messages, proof, histVars, pending,
                 failures, restarts, proofRequests, jumped, subVars>>

\* _sanityChecks: detectNetwork of either provider throws
InitNetworkFailure(r) ==
  /\ pc[r] = "new"
  /\ lastFinalizedTxHeight' =
       [lastFinalizedTxHeight EXCEPT ![r] = OrZero(options.l2ChainStartingHeight)]
  /\ nextUnfinalizedTxHeight' =
       [nextUnfinalizedTxHeight EXCEPT ![r] = OrZero(options.l2ChainStartingHeight)]
  /\ pc' = [pc EXCEPT ![r] = "initFailed"]
  /\ UNCHANGED <<envVars, successfulMessages, options, running, messages, proof,
                 histVars, pending, failures, restarts, auxVars>>

\* mutant: the loop condition does not read the running flag
LoopTop_IgnoresStop(r) ==
  /\ pc[r] = "loop"
  /\ pc' = [pc EXCEPT ![r] = "sleep"]
  /\ UNCHANGED <<envVars, successfulMessages, options, running, cursorVars, messages,
                 proof, histVars, pending, failures, restarts, auxVars>>

\* while (this.running)
LoopTop(r) ==
  /\ pc[r] = "loop"
  /\ pc' = [pc EXCEPT ![r] = IF running[r] THEN "sleep" ELSE "exited"]
  /\ UNCHANGED <<envVars, successfulMessages, options, running, cursorVars, messages,
                 proof, histVars, pending, failures, restarts, auxVars>>

\* mutant: lastFinalizedTxHeight is not moved up to nextUnfinalizedTxHeight
FirstCheck_KeepsLast(r) ==
  /\ pc[r] = "sleep"
  /\ IF ~IsTransactionFinalized(nextUnfinalizedTxHeight[r])
     THEN /\ pc' = [pc EXCEPT ![r] = "loop"]
          /\ lastTick' = [lastTick EXCEPT ![r] = "noop"]
     ELSE /\ pc' = [pc EXCEPT ![r] = "advance"]
          /\ UNCHANGED lastTick
  /\ UNCHANGED jumped
  /\ UNCHANGED <<envVars, successfulMessages, options, running, cursorVars, messages,
                 proof, handled, txVars, scanned, relayedCount, failures, restarts, proofRequests, warnings, subVars>>

\* mutant: the `continue` is missing, the tick goes on whatever the check said
FirstCheck_NoContinue(r) ==
  /\ pc[r] = "sleep"
  /\ pc' = [pc EXCEPT ![r] = "advance"]
  /\ lastFinalizedTxHeight' =
       [lastFinalizedTxHeight EXCEPT ![r] = nextUnfinalizedTxHeight[r]]
  /\ jumped' = [jumped EXCEPT ![r] = <<>>]
  /\ UNCHANGED <<nextUnfinalizedTxHeight, lastTick>>
  /\ UNCHANGED <<envVars, successfulMessages, options, running, messages, proof,
                 handled, txVars, scanned, relayedCount, failures, restarts, proofRequests, warnings, subVars>>

\* sleep, then `if (!(await this._isTransactionFinalized(next))) continue`,
\* then `this.lastFinalizedTxHeight = this.nextUnfinalizedTxHeight`
FirstCheck(r) ==
  /\ pc[r] = "sleep"
  /\ IF ~IsTransactionFinalized(nextUnfinalizedTxHeight[r])
     THEN /\ pc' = [pc EXCEPT ![r] = "loop"]
          /\ lastTick' = [lastTick EXCEPT ![r] = "noop"]
          /\ UNCHANGED <<cursorVars, jumped>>
     ELSE /\ pc' = [pc EXCEPT ![r] = "advance"]
          /\ lastFinalizedTxHeight' =
               [lastFinalizedTxHeight EXCEPT ![r] = nextUnfinalizedTxHeight[r]]
          /\ jumped' = [jumped EXCEPT ![r] = <<>>]
          /\ UNCHANGED <<nextUnfinalizedTxHeight, lastTick>>
  /\ UNCHANGED <<envVars, successfulMessages, options, running, messages, proof,
                 handled, txVars, scanned, relayedCount, failures, restarts, proofRequests, warnings, subVars>>

\* mutant: an `if` in place of the inner `while`: one batch jump per tick
AdvanceCursor_OneJump(r) ==
  /\ pc[r] = "advance"
  /\ pc' = [pc EXCEPT ![r] = "scan"]
  /\ nextUnfinalizedTxHeight' =
       [nextUnfinalizedTxHeight EXCEPT
          ![r] = IF IsTransactionFinalized(@)
                 THEN @ + GetStateBatchHeader(@)[1].batchSize ELSE @]
  /\ jumped' = [jumped EXCEPT
        ![r] = IF IsTransactionFinalized(nextUnfinalizedTxHeight[r])
               THEN Append(@, GetStateBatchHeader(nextUnfinalizedTxHeight[r])[1].batchIndex)
               ELSE @]
  /\ UNCHANGED <<envVars, successfulMessages, options, running, lastFinalizedTxHeight,
                 messages, proof, histVars, pending, failures, restarts, proofRequests, warnings, subVars>>

\* mutant: the cursor moves one element, not one batch, per iteration
AdvanceCursor_StepsOne(r) ==
  /\ pc[r] = "advance"
  /\ IF IsTransactionFinalized(nextUnfinalizedTxHeight[r])
     THEN /\ nextUnfinalizedTxHeight' = [nextUnfinalizedTxHeight EXCEPT ![r] = @ + 1]
          /\ jumped' = [jumped EXCEPT
                ![r] = Append(@, GetStateBatchHeader(nextUnfinalizedTxHeight[r])[1].batchIndex)]
          /\ UNCHANGED pc
     ELSE /\ pc' = [pc EXCEPT ![r] = "scan"]
          /\ UNCHANGED <<nextUnfinalizedTxHeight, jumped>>
  /\ UNCHANGED <<envVars, successfulMessages, options, running, lastFinalizedTxHeight,
                 messages, proof, histVars, pending, failures, restarts, proofRequests, warnings, subVars>>

\* one evaluation of the inner while: either one batch jump or the exit of the loop
AdvanceCursor(r) ==
  /\ pc[r] = "advance"
  /\ IF IsTransactionFinalized(nextUnfinalizedTxHeight[r])
     THEN /\ nextUnfinalizedTxHeight' =
               [nextUnfinalizedTxHeight EXCEPT
                  ![r] = @ + GetStateBatchHeader(nextUnfinalizedTxHeight[r])[1].batchSize]
          /\ jumped' = [jumped EXCEPT
                ![r] = Append(@, GetStateBatchHeader(nextUnfinalizedTxHeight[r])[1].batchIndex)]
          /\ UNCHANGED pc
     ELSE /\ pc' = [pc EXCEPT ![r] = "scan"]
          /\ UNCHANGED <<nextUnfinalizedTxHeight, jumped>>
  /\ UNCHANGED <<envVars, successfulMessages, options, running, lastFinalizedTxHeight,
                 messages, proof, histVars, pending, failures, restarts, proofRequests, warnings, subVars>>

\* const messages = await this._getSentMessages(last, next); a throw of the
\* decoding is caught nowhere, so _start rejects
ScanMessages(r) ==
  /\ pc[r] = "scan"
  /\ IF DecodeThrows(lastFinalizedTxHeight[r], nextUnfinalizedTxHeight[r])
     THEN /\ pc' = [pc EXCEPT ![r] = "crashed"]
          /\ UNCHANGED messages
     ELSE LET found == GetSentMessages(lastFinalizedTxHeight[r], nextUnfinalizedTxHeight[r])
          IN /\ messages' = [messages EXCEPT ![r] = found]
             /\ pc' = [pc EXCEPT ![r] = IF found = <<>> THEN "loop" ELSE "check"]
  /\ handled' = [handled EXCEPT ![r] = <<>>]
  /\ lastTick' = [lastTick EXCEPT ![r] = "scan"]
  /\ scanned' = [scanned EXCEPT
                   ![r] = @ \cup (lastFinalizedTxHeight[r]..nextUnfinalizedTxHeight[r])]
  /\ UNCHANGED <<envVars, successfulMessages, options, running, cursorVars, proof,
                 txVars, relayedCount, failures, restarts, auxVars>>

\* the for-loop moves on to the next message (or the tick ends)
Done(r, outcome) ==
  /\ handled' = [handled EXCEPT ![r] = Append(@, [hash |-> Head(messages[r]).hash,
                                                  outcome |-> outcome])]
  /\ messages' = [messages EXCEPT ![r] = Tail(@)]
  /\ proof' = [proof EXCEPT ![r] = NoProof]
  /\ pc' = [pc EXCEPT ![r] = IF Len(messages[r]) > 1 THEN "check" ELSE "loop"]

\* if (await this._wasMessageRelayed(message)) continue
CheckRelayed(r) ==
  /\ pc[r] = "check"
  /\ IF WasMessageRelayed(Head(messages[r]))
     THEN Done(r, "skipped")
     ELSE /\ pc' = [pc EXCEPT ![r] = "prove"]
          /\ UNCHANGED <<messages, proof, handled>>
  /\ UNCHANGED <<envVars, successfulMessages, options, running, cursorVars,
                 txVars, lastTick, scanned, relayedCount, failures, restarts, auxVars>>

\* const proof = await this._getMessageProof(message), eth_getProof having answered
BuildProof(r) ==
  /\ pc[r] = "prove"
  /\ proof' = [proof EXCEPT ![r] = GetMessageProof(Head(messages[r]))]
  /\ pc' = [pc EXCEPT ![r] = "relay"]
  /\ proofRequests' = proofRequests \cup
       {[hash |-> Head(messages[r]).hash, blockTag |-> BlockTagOf(Head(messages[r]))]}
  /\ UNCHANGED <<envVars, successfulMessages, options, running, cursorVars, messages,
                 histVars, pending, failures, restarts, jumped, warnings, subVars>>

\* mutant: relayMessage is sent whether or not there is a proof
SubmitRelay_AnyProof(r) ==
  /\ pc[r] = "relay"
  /\ LET m == Head(messages[r]) IN
       /\ pc' = [pc EXCEPT ![r] = "wait"]
       /\ submitted' = [submitted EXCEPT ![r][m.hash] = @ + 1]
       /\ relayCalls' = relayCalls \cup
            {[relayer |-> r, hash |-> m.hash, height |-> m.height, sent |-> TRUE,
              finalized |-> IsTransactionFinalized(m.height)]}
       /\ pending' = pending \cup {[relayer |-> r, hash |-> m.hash]}
       /\ UNCHANGED <<messages, proof, handled>>
  /\ UNCHANGED <<envVars, successfulMessages, options, running, cursorVars, lastTick,
                 scanned, relayedCount, failures, restarts, auxVars>>

\* _relayMessageToL1: relayMessage(...) is sent, or throws on an undefined proof
SubmitRelay(r) ==
  /\ pc[r] = "relay"
  /\ LET m == Head(messages[r]) IN
     IF proof[r] = NoProof
     THEN /\ Done(r, "noproof")
          /\ relayCalls' = relayCalls \cup
               {[relayer |-> r, hash |-> m.hash, height |-> m.height, sent |-> FALSE,
                 finalized |-> IsTransactionFinalized(m.height)]}
          /\ UNCHANGED <<submitted, pending>>
     ELSE /\ pc' = [pc EXCEPT ![r] = "wait"]
          /\ submitted' = [submitted EXCEPT ![r][m.hash] = @ + 1]
          /\ relayCalls' = relayCalls \cup
               {[relayer |-> r, hash |-> m.hash, height |-> m.height, sent |-> TRUE,
                 finalized |-> IsTransactionFinalized(m.height)]}
          /\ pending' = pending \cup {[relayer |-> r, hash |-> m.hash]}
          /\ UNCHANGED <<messages, proof, handled>>
  /\ UNCHANGED <<envVars, successfulMessages, options, running, cursorVars, lastTick,
                 scanned, relayedCount, failures, restarts, auxVars>>

\* mutant: no try/catch around _relayMessageToL1: a rejected relay ends _start
ConfirmRelay_Uncaught(r) ==
  /\ pc[r] = "wait"
  /\ [relayer |-> r, hash |-> Head(messages[r]).hash] \in pending
  /\ pending' = pending \ {[relayer |-> r, hash |-> Head(messages[r]).hash]}
  /\ LET m == Head(messages[r]) IN
     IF RelayAccepted(m, proof[r])
     THEN /\ successfulMessages' = successfulMessages \cup {m.hash}
          /\ relayedCount' = [relayedCount EXCEPT ![m.hash] = @ + 1]
          /\ Done(r, "relayed")
     ELSE /\ pc' = [pc EXCEPT ![r] = "crashed"]
          /\ UNCHANGED <<successfulMessages, relayedCount, messages, proof, handled>>
  /\ UNCHANGED <<envVars, options, running, cursorVars, submitted, relayCalls, lastTick,
                 scanned, failures, restarts, auxVars>>

\* result.wait(): the transaction is mined and its receipt read
ConfirmRelay(r) ==
  /\ pc[r] = "wait"
  /\ [relayer |-> r, hash |-> Head(messages[r]).hash] \in pending
  /\ pending' = pending \ {[relayer |-> r, hash |-> Head(messages[r]).hash]}
  /\ LET m == Head(messages[r]) IN
     IF RelayAccepted(m, proof[r])
     THEN /\ successfulMessages' = successfulMessages \cup {m.hash}
          /\ relayedCount' = [relayedCount EXCEPT ![m.hash] = @ + 1]
          /\ Done(r, "relayed")
     ELSE /\ Done(r, "reverted")
          /\ UNCHANGED <<successfulMessages, relayedCount>>
  /\ UNCHANGED <<envVars, options, running, cursorVars, submitted, relayCalls, lastTick,
                 scanned, failures, restarts, auxVars>>

\* ----------------------------------------------------------------- faults
\* an RPC call of the tick outside any try block rejects: _start rejects
RpcFailure(r) ==
  /\ pc[r] \in {"sleep", "advance", "scan", "check"}
  /\ failures < MaxFail
  /\ failures' = failures + 1
  /\ pc' = [pc EXCEPT ![r] = "crashed"]
  /\ UNCHANGED <<envVars, successfulMessages, options, running, cursorVars, messages,
                 proof, histVars, pending, restarts, auxVars>>

\* eth_getProof or the batch lookup inside _getMessageProof fails: caught, returns undefined
ProofFailure(r) ==
  /\ pc[r] = "prove"
  /\ failures < MaxFail
  /\ failures' = failures + 1
  /\ proof' = [proof EXCEPT ![r] = NoProof]
  /\ pc' = [pc EXCEPT ![r] = "relay"]
  /\ proofRequests' = proofRequests \cup
       {[hash |-> Head(messages[r]).hash, blockTag |-> BlockTagOf(Head(messages[r]))]}
  /\ UNCHANGED <<envVars, successfulMessages, options, running, cursorVars, messages,
                 histVars, pending, restarts, jumped, warnings, subVars>>

\* the relay transaction cannot be sent, or fails for a reason of its own: caught and logged
RelayFailure(r) ==
  /\ pc[r] \in {"relay", "wait"}
  /\ proof[r] # NoProof
  /\ failures < MaxFail
  /\ failures' = failures + 1
  /\ Done(r, IF pc[r] = "relay" THEN "sendfail" ELSE "reverted")
  /\ pending' = pending \ {[relayer |-> r, hash |-> Head(messages[r]).hash]}
  /\ UNCHANGED <<envVars, successfulMessages, options, running, cursorVars,
                 submitted, relayCalls, lastTick, scanned, relayedCount, restarts, auxVars>>

\* -------------------------------------------------------------- lifecycle
\* BaseService.stop()
Stop(r) ==
  /\ running[r]
  /\ running' = [running EXCEPT ![r] = FALSE]
  /\ UNCHANGED <<envVars, successfulMessages, options, pc, cursorVars, messages,
                 proof, histVars, pending, failures, restarts, auxVars>>

\* the process has ended; a new one is started with the same options
Restart(r) ==
  /\ pc[r] \in {"exited", "crashed"}
  /\ restarts < MaxRestarts
  /\ restarts' = restarts + 1
  /\ pc' = [pc EXCEPT ![r] = "new"]
  /\ running' = [running EXCEPT ![r] = FALSE]
  /\ lastFinalizedTxHeight' = [lastFinalizedTxHeight EXCEPT ![r] = 0]
  /\ nextUnfinalizedTxHeight' = [nextUnfinalizedTxHeight EXCEPT ![r] = 0]
  /\ messages' = [messages EXCEPT ![r] = <<>>]
  /\ proof' = [proof EXCEPT ![r] = NoProof]
  /\ handled' = [handled EXCEPT ![r] = <<>>]
  /\ submitted' = [submitted EXCEPT ![r] = [m \in MsgIds |-> 0]]
  /\ lastTick' = [lastTick EXCEPT ![r] = "none"]
  /\ scanned' = [scanned EXCEPT ![r] = {}]
  /\ jumped' = [jumped EXCEPT ![r] = <<>>]
  /\ warnings' = [warnings EXCEPT ![r] = {}]
  /\ UNCHANGED <<envVars, successfulMessages, options, relayCalls, relayedCount, pending,
                 failures, proofRequests, subVars>>

\* ------------------------------------------------------------------- Next
\* the steps the relayer takes when nothing fails
RelayerStep(r) ==
  \/ InitService(r)
  \/ LoopTop(r)
  \/ FirstCheck(r)
  \/ AdvanceCursor(r)
  \/ ScanMessages(r)
  \/ CheckRelayed(r)
  \/ BuildProof(r)
  \/ SubmitRelay(r)
  \/ ConfirmRelay(r)

Next ==
  \/ \E k \in 0..MaxMsgsPerBlock : L2Mine(k)
  \/ \E size \in 1..MaxBatchSize : AppendStateBatch(size)
  \/ AdvanceTime
  \/ \E r \in Relayers : InitService(r)
  \/ \E r \in Relayers : InitNetworkFailure(r)
  \/ \E r \in Relayers : LoopTop(r)
  \/ \E r \in Relayers : FirstCheck(r)
  \/ \E r \in Relayers : AdvanceCursor(r)
  \/ \E r \in Relayers : ScanMessages(r)
  \/ \E r \in Relayers : CheckRelayed(r)
  \/ \E r \in Relayers : BuildProof(r)
  \/ \E r \in Relayers : SubmitRelay(r)
  \/ \E r \in Relayers : ConfirmRelay(r)
  \/ \E r \in Relayers : RpcFailure(r)
  \/ \E r \in Relayers : ProofFailure(r)
  \/ \E r \in Relayers : RelayFailure(r)
  \/ \E r \in Relayers : Stop(r)
  \/ \E r \in Relayers : Restart(r)

Spec == Init /\ [][Next]_vars

\* A relayer that is never stopped and whose reads never reject; relay
\* transactions may still fail. The event loop resumes the relayer whenever the
\* call it awaits has returned.
FairNext ==
  \/ \E k \in 0..MaxMsgsPerBlock : L2Mine(k)
  \/ \E size \in 1..MaxBatchSize : AppendStateBatch(size)
  \/ AdvanceTime
  \/ \E r \in Relayers : RelayerStep(r)
  \/ \E r \in Relayers : RelayFailure(r)

FairSpec == Init /\ [][FairNext]_vars /\ \A r \in Relayers : WF_vars(RelayerStep(r))

\* The failures the relayer has a handler for: detectNetwork throwing in _init,
\* eth_getProof or the batch lookup failing in _getMessageProof, a relay
\* transaction failing.
FaultNext ==
  \/ FairNext
  \/ \E r \in Relayers : InitNetworkFailure(r)
  \/ \E r \in Relayers : ProofFailure(r)

FaultSpec == Init /\ [][FaultNext]_vars

\* The L2 messenger's log may hold a SentMessage event whose payload does not
\* decode; nothing else fails.
DecodeNext ==
  \/ FairNext
  \/ L2MineMalformed

DecodeSpec == Init /\ [][DecodeNext]_vars

\* The relayer may be stopped at any moment; its reads never reject, and the
\* event loop resumes it whenever the call it awaits has returned.
StopNext ==
  \/ FairNext
  \/ \E r \in Relayers : Stop(r)

StopSpec == Init /\ [][StopNext]_vars /\ \A r \in Relayers : WF_vars(RelayerStep(r))

\* Two relayer processes with the same options, pointed at the same chains and
\* the same L1 messenger; each has its own cursor and its own loop.
TwoRelayers == {1, 2}

DuoInit ==
  /\ options \in [l2ChainStartingHeight : {<<>>}, blockOffset : BlockOffsets,
                   pollingInterval : PollingIntervals]
  /\ l2Blocks = 0
  /\ subOptions = IdleSubmitter
  /\ StartState(TwoRelayers)

DuoNext ==
  \/ \E k \in 0..MaxMsgsPerBlock : L2Mine(k)
  \/ \E size \in 1..MaxBatchSize : AppendStateBatch(size)
  \/ AdvanceTime
  \/ \E r \in TwoRelayers : RelayerStep(r)

DuoSpec == DuoInit /\ [][DuoNext]_vars

\* A relayer started without l2ChainStartingHeight, never stopped, nothing failing.
DefaultInit == Init /\ options.l2ChainStartingHeight = <<>>

DefaultNext ==
  \/ \E k \in 0..MaxMsgsPerBlock : L2Mine(k)
  \/ \E size \in 1..MaxBatchSize : AppendStateBatch(size)
  \/ AdvanceTime
  \/ \E r \in Relayers : RelayerStep(r)

DefaultSpec ==
  DefaultInit /\ [][DefaultNext]_vars /\ \A r \in Relayers : WF_vars(RelayerStep(r))

\* ------------------------------------------------- state batch submitter
\* Everything the submitter leaves alone: the relayer and the L2 chain.
relayVars == <<l1Time, l2Blocks, l2Logs, successfulMessages, options, pc, running,
               cursorVars, messages, proof, histVars, pending, failures, restarts,
               proofRequests, jumped, warnings>>

\* import { BLOCK_OFFSET } from '.'
BLOCK_OFFSET == subOptions.BLOCK_OFFSET

\* tx.length for a batch of n state roots: the hex string of the ABI encoding
\* of appendStateBatch(bytes32[], uint256): "0x", 8 digits of selector, three
\* words of 64 digits (array offset, start index, array length), 64 per root
EncodedLength(n) == 2 + 8 + 3 * 64 + 64 * n

\* Math.ceil((batch.length * 2) / 3)
SpliceStart(n) == (2 * n + 2) \div 3

\* (await this.chainContract.getTotalElements()).toNumber() + BLOCK_OFFSET
StartBlock == TotalElements + BLOCK_OFFSET

\* mutant: the end of the range is not capped by the transaction chain
EndBlock_Uncapped == StartBlock + subOptions.maxBatchSize

\* Math.min(startBlock + this.maxBatchSize, totalElements)
EndBlock == Min({StartBlock + subOptions.maxBatchSize, l2Blocks})

\* _getBatchStartAndEnd: a Range, or nothing when there is nothing to commit
GetBatchStartAndEnd ==
  /\ subPc = "idle"
  /\ IF StartBlock >= EndBlock
     THEN /\ batchRange' = <<>>
          /\ lastSubmit' = "norange"
          /\ UNCHANGED subPc
     ELSE /\ batchRange' = <<[start |-> StartBlock, end |-> EndBlock]>>
          /\ subPc' = "build"
          /\ UNCHANGED lastSubmit
  /\ UNCHANGED <<relayVars, batches, subOptions, stateBatch>>

\* the for loop of _generateStateCommitmentBatch: the state root of every L2
\* block start..end-1; block i holds the chain element i - BLOCK_OFFSET
GenerateStateCommitmentBatch ==
  /\ subPc = "build"
  /\ stateBatch' = [i \in 1..(batchRange[1].end - batchRange[1].start) |->
                      StateRootAt(batchRange[1].start + i - 1 - BLOCK_OFFSET)]
  /\ subPc' = "truncate"
  /\ UNCHANGED <<relayVars, batches, subOptions, batchRange, lastSubmit>>

\* one evaluation of `while (tx.length > this.maxTxSize)`: the splice of one
\* iteration, or the return of the batch
TruncateBatch ==
  /\ subPc = "truncate"
  /\ IF EncodedLength(Len(stateBatch)) > subOptions.maxTxSize
     THEN /\ stateBatch' = SubSeq(stateBatch, 1, SpliceStart(Len(stateBatch)))
          /\ UNCHANGED subPc
     ELSE /\ subPc' = "submit"
          /\ UNCHANGED stateBatch
  /\ UNCHANGED <<relayVars, batches, subOptions, batchRange, lastSubmit>>

\* the rest of _submitBatch: a batch whose transaction is shorter than
\* minTxSize is dropped, any other is appended to the state commitment chain
\* at startBlock - BLOCK_OFFSET
SubmitBatch ==
  /\ subPc = "submit"
  /\ IF EncodedLength(Len(stateBatch)) < subOptions.minTxSize
     THEN /\ lastSubmit' = "toosmall"
          /\ UNCHANGED batches
     ELSE /\ lastSubmit' = "submitted"
          /\ batches' = Append(batches, [batchIndex |-> Len(batches) + 1,
                                         batchSize |-> Len(stateBatch),
                                         prevTotalElements |-> TotalElements,
                                         timestamp |-> l1Time,
                                         transaction |->
                                           [stateRoots |-> stateBatch,
                                            shouldStartAtElement |->
                                              batchRange[1].start - BLOCK_OFFSET]])
  /\ subPc' = "idle"
  /\ batchRange' = <<>>
  /\ stateBatch' = <<>>
  /\ UNCHANGED <<relayVars, subOptions>>

\* The submitter alone against a transaction chain of 0..MaxCtcElements
\* elements, under each configuration of a few batch and transaction sizes.
MaxCtcElements == 6
SubBatchSizes == {0, 2, MaxCtcElements - 1}
SubMaxTxSizes == {EncodedLength(0) - 1, EncodedLength(1), EncodedLength(3),
                  EncodedLength(MaxCtcElements)}
SubMinTxSizes == {0, EncodedLength(2)}

SubInit ==
  /\ options \in [l2ChainStartingHeight : {<<>>}, blockOffset : BlockOffsets,
                   pollingInterval : PollingIntervals]
  /\ l2Blocks \in 0..MaxCtcElements
  /\ subOptions \in [maxBatchSize : SubBatchSizes, maxTxSize : SubMaxTxSizes,
                      minTxSize : SubMinTxSizes, BLOCK_OFFSET : {0, 1}]
  /\ StartState(Relayers)

SubmitterStep ==
  \/ GetBatchStartAndEnd
  \/ GenerateStateCommitmentBatch
  \/ TruncateBatch
  \/ SubmitBatch

SubNext == SubmitterStep

SubSpec == SubInit /\ [][SubNext]_vars /\ WF_vars(SubmitterStep)

\* The relayer configured with each block offset 0..MaxBlockOffset: the L2
\* chain numbers the block of the element at height h as h + blockOffset.
MaxBlockOffset == 2

OffsetInit ==
  /\ options \in [l2ChainStartingHeight : {<<>>}, blockOffset : 0..MaxBlockOffset,
                   pollingInterval : PollingIntervals]
  /\ l2Blocks = 0
  /\ subOptions = IdleSubmitter
  /\ StartState(Relayers)

OffsetSpec == OffsetInit /\ [][DefaultNext]_vars

\* The relayer configured with polling intervals on both sides of every limit
\* of the warning (milliseconds; <<>> is "not configured"), and with a valid
\* and an invalid starting height.
PolledIntervals == {<<>>, <<0>>, <<14999>>, <<15000>>, <<60000>>, <<60001>>, <<120000>>,
                    <<3600000>>, <<3600001>>}

PollInit ==
  /\ options \in [l2ChainStartingHeight : {<<>>, <<-1>>}, blockOffset : BlockOffsets,
                   pollingInterval : PolledIntervals]
  /\ l2Blocks = 0
  /\ subOptions = IdleSubmitter
  /\ StartState(Relayers)

PollSpec == PollInit /\ [][DefaultNext]_vars

\* ----------------------------------------------------------------- claims
\* the SentMessage event that carries a message hash
EventOf(hash) == l2Logs[hash]
HeightOf(hash) == EventOf(hash).blockNumber - blockOffset
Sent(hash) == hash \in 1..Len(l2Logs)

\* (blockNumber, logIndex) order of two events
Before(a, b) ==
  \/ a.blockNumber < b.blockNumber
  \/ a.blockNumber = b.blockNumber /\ a.logIndex < b.logIndex

\* the hashes of the `messages` array of the running tick: handled, then still to handle
TickHashes(r) ==
  [i \in 1..Len(handled[r]) |-> handled[r][i].hash] \o
  [i \in 1..Len(messages[r]) |-> messages[r][i].hash]

Failed(r, hash) ==
  \E i \in 1..Len(handled[r]) :
    /\ handled[r][i].hash = hash
    /\ handled[r][i].outcome \in {"noproof", "sendfail", "reverted"}

\* C1: no relayMessage transaction is sent for a message at height h unless a
\* batch covers h and that batch is outside the fraud-proof window.
C1_FinalizationGate == \A t \in relayCalls : t.sent => t.finalized

\* C2: every message sent at a height at or above l2ChainStartingHeight whose
\* batch has left the fraud-proof window is eventually successful on L1, as
\* long as no call fails, no relay attempt for it fails and the loop keeps ticking.
C2_EventualRelay ==
  \A m \in MsgIds :
    (/\ Sent(m)
     /\ ~StartingHeightNegative(options.l2ChainStartingHeight)
     /\ HeightOf(m) >= OrZero(options.l2ChainStartingHeight)
     /\ IsTransactionFinalized(HeightOf(m)))
    ~> (\/ m \in successfulMessages
        \/ failures > 0
        \/ \E t \in relayCalls : t.hash = m)

\* C3: within one process a relayMessage transaction is sent at most once per message.
C3_NoDoubleRelay == \A r \in Relayers : \A m \in MsgIds : submitted[r][m] <= 1

\* C4: last <= next always, next never decreases while the process lives, and
\* _init sets both cursors to l2ChainStartingHeight (0 when not configured).
C4_CursorMonotonicity ==
  /\ [](\A r \in Relayers : lastFinalizedTxHeight[r] <= nextUnfinalizedTxHeight[r])
  /\ [][\A r \in Relayers :
          /\ (pc[r] # "new" /\ pc'[r] # "new")
               => nextUnfinalizedTxHeight'[r] >= nextUnfinalizedTxHeight[r]
          /\ (pc[r] = "new" /\ pc'[r] # "new")
               => /\ lastFinalizedTxHeight'[r] = OrZero(options.l2ChainStartingHeight)
                  /\ nextUnfinalizedTxHeight'[r] = OrZero(options.l2ChainStartingHeight)]_vars

C4_Witness ==
  \E r \in Relayers :
    /\ options.l2ChainStartingHeight = <<>>
    /\ lastFinalizedTxHeight[r] > 0
    /\ nextUnfinalizedTxHeight[r] > lastFinalizedTxHeight[r]

\* C5: a message whose relay failed in a tick, and whose batch is finalized, is
\* taken up again by a later tick and ends up successful.
C5_NextTickRecovery ==
  \A m \in MsgIds :
    (/\ Sent(m)
     /\ \E r \in Relayers : Failed(r, m)
     /\ IsTransactionFinalized(HeightOf(m)))
    ~> (m \in successfulMessages)

\* C6: when the dedup check of a scanned message returns true, the relayer moves
\* on to the next message without building a proof or sending a transaction;
\* a message is handled at most once per tick.
C6_DedupSkip ==
  /\ [](\A r \in Relayers : \A i, j \in 1..Len(TickHashes(r)) :
          i # j => TickHashes(r)[i] # TickHashes(r)[j])
  /\ [][\A r \in Relayers :
          (/\ pc[r] = "check"
           /\ Head(messages[r]).hash \in successfulMessages
           /\ <<pc[r], messages[r]>>' # <<pc[r], messages[r]>>
           /\ pc'[r] # "crashed")
          => /\ messages'[r] = Tail(messages[r])
             /\ handled'[r] = Append(handled[r], [hash |-> Head(messages[r]).hash,
                                                  outcome |-> "skipped"])
             /\ proof'[r] = NoProof
             /\ pc'[r] \in {"check", "loop"}
             /\ UNCHANGED txVars]_vars

\* a restarted relayer configured with l2ChainStartingHeight = 0 has skipped a
\* message that an earlier process had relayed
C6_Witness ==
  \E r \in Relayers :
    /\ restarts > 0
    /\ options.l2ChainStartingHeight = <<0>>
    /\ \E i \in 1..Len(handled[r]) : handled[r][i].outcome = "skipped"
    /\ \A m \in MsgIds : submitted[r][m] = 0

\* C7: a tick whose first isTransactionFinalized(nextUnfinalizedTxHeight) is
\* false changes neither cursor, scans nothing and sends nothing.
C7_PreFinalizationNoOp ==
  [][\A r \in Relayers :
       (/\ pc[r] = "sleep"
        /\ pc'[r] \notin {"sleep", "crashed"}
        /\ ~IsTransactionFinalized(nextUnfinalizedTxHeight[r]))
       => /\ pc'[r] = "loop"
          /\ lastFinalizedTxHeight'[r] = lastFinalizedTxHeight[r]
          /\ nextUnfinalizedTxHeight'[r] = nextUnfinalizedTxHeight[r]
          /\ messages'[r] = <<>>
          /\ handled'[r] = handled[r]
          /\ UNCHANGED <<txVars, successfulMessages>>]_vars

\* a tick ended as a no-op although a message was waiting on L2
C7_Witness ==
  \E r \in Relayers :
    /\ lastTick[r] = "noop"
    /\ pc[r] = "loop"
    /\ l2Logs # <<>>
    /\ batches # <<>>

\* C8: every message of a tick has a height in the half-open range
\* [lastFinalizedTxHeight, nextUnfinalizedTxHeight).
C8_ScanRangeHalfOpen ==
  \A r \in Relayers : \A i \in 1..Len(messages[r]) :
    /\ lastFinalizedTxHeight[r] <= messages[r][i].height
    /\ messages[r][i].height < nextUnfinalizedTxHeight[r]

\* C9: no failed RPC call ends the loop.
C9_LoopSurvivesRpcErrors == \A r \in Relayers : pc[r] # "crashed"

\* C10: the messages of a tick are handled in ascending (blockNumber, logIndex)
\* order, and a relayer has at most one relay transaction in flight: the one
\* for the message it is waiting on.
C10_RelayOrdering ==
  \A r \in Relayers :
    /\ \A i, j \in 1..Len(TickHashes(r)) :
         i < j => Before(EventOf(TickHashes(r)[i]), EventOf(TickHashes(r)[j]))
    /\ \A t \in pending :
         t.relayer = r => pc[r] = "wait" /\ t.hash = Head(messages[r]).hash
    /\ Cardinality({t \in pending : t.relayer = r}) <= 1

\* the second message of a block is in flight after the first was relayed
C10_Witness ==
  \E r \in Relayers :
    /\ pc[r] = "wait"
    /\ Len(handled[r]) = 1
    /\ handled[r][1].outcome = "relayed"
    /\ EventOf(handled[r][1].hash).blockNumber = EventOf(Head(messages[r]).hash).blockNumber

\* C11: every step of the cursor advance jumps by the size of the finalized
\* batch that covers nextUnfinalizedTxHeight, and the advance ends only once
\* isTransactionFinalized(nextUnfinalizedTxHeight) is false, so one tick passes
\* every consecutive finalized batch.
C11_WholeBatchAdvance ==
  [][\A r \in Relayers :
       (/\ pc[r] = "advance"
        /\ <<pc[r], nextUnfinalizedTxHeight[r]>>' # <<pc[r], nextUnfinalizedTxHeight[r]>>
        /\ pc'[r] # "crashed")
       => /\ pc'[r] \in {"advance", "scan"}
          /\ lastFinalizedTxHeight'[r] = lastFinalizedTxHeight[r]
          /\ pc'[r] = "scan" =>
               /\ nextUnfinalizedTxHeight'[r] = nextUnfinalizedTxHeight[r]
               /\ ~IsTransactionFinalized(nextUnfinalizedTxHeight'[r])
          /\ pc'[r] = "advance" =>
               \E i \in 1..Len(batches) :
                 /\ batches[i].prevTotalElements <= nextUnfinalizedTxHeight[r]
                 /\ nextUnfinalizedTxHeight[r] <
                      batches[i].prevTotalElements + batches[i].batchSize
                 /\ batches[i].timestamp + FraudProofWindow <= l1Time
                 /\ nextUnfinalizedTxHeight'[r] =
                      nextUnfinalizedTxHeight[r] + batches[i].batchSize]_vars

\* one tick has moved the cursor from 0 past two batches
C11_Witness ==
  \E r \in Relayers :
    /\ pc[r] = "scan"
    /\ lastFinalizedTxHeight[r] = 0
    /\ Len(batches) >= 2
    /\ nextUnfinalizedTxHeight[r] = TotalElements

\* C12: with two relayers on one L1 messenger, under every interleaving, the
\* messenger accepts at most one relay per message, and no relayer's loop ends:
\* a rejected double relay is one more handled message of the tick.
C12_TwoRelayersSafe ==
  /\ \A m \in MsgIds : relayedCount[m] <= 1
  /\ \A m \in MsgIds : relayedCount[m] = 1 <=> m \in successfulMessages
  /\ \A r \in TwoRelayers : pc[r] \notin {"crashed", "exited", "initFailed"}

\* both relayers sent a relay of the same finalized message; the messenger took
\* one, the other relayer saw its transaction rejected and is in its next tick
C12_Witness ==
  \E r1, r2 \in TwoRelayers : \E m \in MsgIds :
    /\ r1 # r2
    /\ Sent(m)
    /\ [relayer |-> r1, hash |-> m, height |-> HeightOf(m), sent |-> TRUE,
         finalized |-> TRUE] \in relayCalls
    /\ [relayer |-> r2, hash |-> m, height |-> HeightOf(m), sent |-> TRUE,
         finalized |-> TRUE] \in relayCalls
    /\ relayedCount[m] = 1
    /\ \E i \in 1..Len(handled[r2]) :
         handled[r2][i] = [hash |-> m, outcome |-> "reverted"]
    /\ pc[r2] = "sleep"

\* C13: stop only clears the running flag: the tick in progress keeps all it
\* has (messages, proof, the transaction in flight) and runs on; the loop is
\* left only at its head, no tick starts once the flag is clear, and a stopped
\* loop whose calls all return ends up exited.
C13_StopLifecycle ==
  /\ [][\A r \in Relayers :
          /\ (running[r] /\ ~running'[r] /\ pc[r] # "exited")
               => /\ UNCHANGED <<pc, messages, proof, cursorVars, pending, handled>>
          /\ (pc[r] = "loop" /\ ~running[r]) => pc'[r] \in {"loop", "exited"}
          /\ (pc[r] # "exited" /\ pc'[r] = "exited")
               => pc[r] = "loop" /\ ~running[r]]_vars
  /\ \A r \in Relayers :
       (~running[r] /\ pc[r] \notin {"new", "initFailed"}) ~> (pc[r] = "exited")

\* the relayer was stopped with a relay transaction in flight and went on to see it mined
C13_Witness ==
  \E r \in Relayers :
    /\ ~running[r]
    /\ pc[r] = "wait"
    /\ pending # {}

\* C14: with a negative l2ChainStartingHeight, or when detectNetwork fails,
\* start ends in the failed state; a relayer in that state stays there and has
\* run no tick: nothing scanned, no relay call, no transaction.
C14_ConfigErrorsFatal ==
  /\ [](\A r \in Relayers :
          pc[r] = "initFailed"
          => /\ lastTick[r] = "none"
             /\ messages[r] = <<>>
             /\ handled[r] = <<>>
             /\ scanned[r] = {}
             /\ \A m \in MsgIds : submitted[r][m] = 0
             /\ \A t \in relayCalls \cup pending : t.relayer # r)
  /\ [][\A r \in Relayers :
          /\ (pc[r] = "new" /\ pc'[r] # "new"
               /\ StartingHeightNegative(options.l2ChainStartingHeight))
               => pc'[r] = "initFailed"
          /\ pc[r] = "initFailed" => pc'[r] = "initFailed"
          /\ (pc[r] \in {"new", "initFailed"} /\ pc'[r] = "initFailed")
               => UNCHANGED <<messages, proof, histVars, pending, successfulMessages>>]_vars

\* a finalized message waits on L2 and the relayer, configured with a negative
\* starting height, has failed to start
C14_Witness ==
  \E r \in Relayers :
    /\ pc[r] = "initFailed"
    /\ StartingHeightNegative(options.l2ChainStartingHeight)
    /\ Sent(1)
    /\ IsTransactionFinalized(HeightOf(1))

\* C15: whatever the starting height, every height of [lastFinalizedTxHeight,
\* nextUnfinalizedTxHeight) is covered by a batch outside the fraud-proof window,
\* and nextUnfinalizedTxHeight is at most the end of a finalized batch.
C15_AdvanceStaysInFinalized ==
  \A r \in Relayers :
    /\ \A h \in lastFinalizedTxHeight[r]..(nextUnfinalizedTxHeight[r] - 1) :
         IsTransactionFinalized(h)
    /\ lastFinalizedTxHeight[r] < nextUnfinalizedTxHeight[r]
         => \E i \in 1..Len(batches) :
              /\ ~InsideFraudProofWindow(batches[i])
              /\ nextUnfinalizedTxHeight[r] <=
                   batches[i].prevTotalElements + batches[i].batchSize

\* C16: _getMessageProof gives no proof when no batch covers the message's
\* height (or eth_getProof fails); the relayer then sends no transaction for
\* the message, leaves the cursor alone and moves on to the next message.
C16_ProofSoftFailure ==
  [][\A r \in Relayers :
       /\ (pc[r] = "prove" /\ pc'[r] # "prove")
            => /\ pc'[r] = "relay"
               /\ GetStateBatchHeader(Head(messages[r]).height) = <<>>
                    => proof'[r] = NoProof
               /\ UNCHANGED <<cursorVars, messages, txVars, successfulMessages>>
       /\ (pc[r] = "relay" /\ proof[r] = NoProof /\ pc'[r] # "relay")
            => /\ pc'[r] = IF Len(messages[r]) > 1 THEN "check" ELSE "loop"
               /\ messages'[r] = Tail(messages[r])
               /\ handled'[r] = Append(handled[r], [hash |-> Head(messages[r]).hash,
                                                    outcome |-> "noproof"])
               /\ UNCHANGED <<cursorVars, submitted, pending, successfulMessages>>]_vars

\* a fault was injected, no proof could be built for the first message of a
\* tick, and the second message of that tick was relayed
C16_Witness ==
  \E r \in Relayers :
    /\ failures > 0
    /\ Len(handled[r]) = 2
    /\ handled[r][1].outcome = "noproof"
    /\ handled[r][2].outcome = "relayed"
    /\ \A m \in MsgIds : submitted[r][m] = (IF m = handled[r][2].hash THEN 1 ELSE 0)

\* C17: a SentMessage event that does not decode is skipped: the loop never
\* ends on a scan range that holds such an event.
C17_DecodeFailureLocal ==
  \A r \in Relayers :
    ~(/\ pc[r] = "crashed"
      /\ DecodeThrows(lastFinalizedTxHeight[r], nextUnfinalizedTxHeight[r]))

Max(S) == CHOOSE x \in S : \A y \in S : y <= x

\* C18: the range a tick scans starts where the range of the previous scanning
\* tick of the process ended (at l2ChainStartingHeight for the first), so
\* between ticks every height from l2ChainStartingHeight up to
\* nextUnfinalizedTxHeight has been in the scan range of some tick.
C18_GaplessScanning ==
  /\ [](\A r \in Relayers :
          pc[r] \in {"loop", "sleep", "check", "prove", "relay", "wait", "exited"}
          => \A h \in OrZero(options.l2ChainStartingHeight)..(nextUnfinalizedTxHeight[r] - 1) :
               h \in scanned[r])
  /\ [][\A r \in Relayers :
          (pc[r] = "scan" /\ pc'[r] \notin {"scan", "crashed"})
          => /\ lastFinalizedTxHeight[r] =
                  (IF scanned[r] = {} THEN OrZero(options.l2ChainStartingHeight)
                   ELSE Max(scanned[r]))
             /\ scanned'[r] = scanned[r] \cup
                  (lastFinalizedTxHeight[r]..nextUnfinalizedTxHeight[r])]_vars

\* a second scanning tick has ended, its range starting above the starting height
C18_Witness ==
  \E r \in Relayers :
    /\ pc[r] = "loop"
    /\ lastTick[r] = "scan"
    /\ lastFinalizedTxHeight[r] > OrZero(options.l2ChainStartingHeight)
    /\ nextUnfinalizedTxHeight[r] > lastFinalizedTxHeight[r]
    /\ scanned[r] = OrZero(options.l2ChainStartingHeight)..nextUnfinalizedTxHeight[r]

\* the heights isTransactionFinalized and getStateBatchHeader are asked about
Heights == (0 - 1)..MaxL2Blocks

\* C19: isTransactionFinalized(height) is false when getStateBatchHeader(height)
\* is none and otherwise the negation of insideFraudProofWindow(header), a batch
\* exactly at the window boundary counting as finalized; the first check of a
\* tick goes the way this answer says.
C19_IsTransactionFinalized ==
  /\ [](\A h \in Heights :
          LET header == GetStateBatchHeader(h)
          IN IF header = <<>>
             THEN ~IsTransactionFinalized(h)
             ELSE /\ IsTransactionFinalized(h) = ~InsideFraudProofWindow(header[1])
                  /\ header[1].timestamp + FraudProofWindow = l1Time
                       => IsTransactionFinalized(h))
  /\ [][\A r \in Relayers :
          (pc[r] = "sleep" /\ pc'[r] \in {"loop", "advance"})
          => (pc'[r] = "advance"
              <=> \E i \in 1..Len(batches) :
                    /\ batches[i].prevTotalElements <= nextUnfinalizedTxHeight[r]
                    /\ nextUnfinalizedTxHeight[r] <
                         batches[i].prevTotalElements + batches[i].batchSize
                    /\ batches[i].timestamp + FraudProofWindow <= l1Time)]_vars

\* the first check of a tick passed on a batch that is exactly at the window boundary
C19_Witness ==
  \E r \in Relayers :
    /\ pc[r] = "advance"
    /\ lastFinalizedTxHeight[r] = nextUnfinalizedTxHeight[r]
    /\ GetStateBatchHeader(nextUnfinalizedTxHeight[r]) # <<>>
    /\ GetStateBatchHeader(nextUnfinalizedTxHeight[r])[1].timestamp + FraudProofWindow = l1Time

\* the appended batches whose range [prevTotalElements, prevTotalElements + batchSize) holds h
CoveringBatches(h) ==
  {i \in 1..Len(batches) :
     /\ batches[i].prevTotalElements <= h
     /\ h < batches[i].prevTotalElements + batches[i].batchSize}

\* C20: getStateBatchHeader(height) is none exactly when no appended batch
\* covers height; otherwise one batch only covers it and the header returned is
\* that batch's, its stateRoots being those of the batch's appendStateBatch
\* calldata, one per element; a proof built from it points inside its batch.
C20_GetStateBatchHeader ==
  /\ \A h \in Heights :
        LET header == GetStateBatchHeader(h)
        IN /\ (header = <<>>) <=> (CoveringBatches(h) = {})
           /\ Cardinality(CoveringBatches(h)) <= 1
           /\ \A i \in CoveringBatches(h) :
                 /\ header[1].batchIndex = i
                 /\ header[1].batchIndex = batches[i].batchIndex
                 /\ header[1].batchSize = batches[i].batchSize
                 /\ header[1].prevTotalElements = batches[i].prevTotalElements
                 /\ header[1].stateRoots = batches[i].transaction.stateRoots
                 /\ Len(header[1].stateRoots) = batches[i].batchSize
                 /\ header[1].stateRoots[h - batches[i].prevTotalElements + 1] = StateRootAt(h)
  /\ \A r \in Relayers :
        proof[r] # NoProof
        => /\ proof[r][1].stateRootBatchHeader.batchIndex \in 1..Len(batches)
           /\ proof[r][1].stateRootProof.index >= 0
           /\ proof[r][1].stateRootProof.index <
                batches[proof[r][1].stateRootBatchHeader.batchIndex].batchSize

\* a relayer built a proof from the header of the second of several batches,
\* while some mined height is covered by no batch
C20_Witness ==
  /\ Len(batches) >= 2
  /\ TotalElements < l2Blocks
  /\ GetStateBatchHeader(TotalElements) = <<>>
  /\ \E r \in Relayers : proof[r] # NoProof /\ proof[r][1].stateRootBatchHeader.batchIndex = 2

\* the proof a relayer holds for the message it is handling
HeldProofs ==
  {<<r, Head(messages[r]), proof[r][1]>> : r \in {q \in Relayers : proof[q] # NoProof}}

\* C21: a proof returned by getMessageProof has stateRootProof.index =
\* message.height - batch.prevTotalElements with 0 <= index < batch.batchSize,
\* its stateRoot is batch.stateRoots[index], and its stateRootBatchHeader is the
\* header of the batch that covers message.height; no proof is returned only
\* when no batch covers the height.
C21_MessageProofShape ==
  /\ [](\A held \in HeldProofs :
          LET message == held[2]
              prf == held[3]
              batch == prf.stateRootBatchHeader
          IN /\ prf.stateRootProof.index = message.height - batch.prevTotalElements
             /\ prf.stateRootProof.index >= 0
             /\ prf.stateRootProof.index < batch.batchSize
             /\ prf.stateRoot = batch.stateRoots[prf.stateRootProof.index + 1]
             /\ prf.stateRoot = StateRootAt(message.height)
             /\ CoveringBatches(message.height) = {batch.batchIndex}
             /\ batch.batchSize = batches[batch.batchIndex].batchSize
             /\ batch.prevTotalElements = batches[batch.batchIndex].prevTotalElements
             /\ batch.stateRoots = batches[batch.batchIndex].transaction.stateRoots)
  /\ [][\A r \in Relayers :
          (pc[r] = "prove" /\ pc'[r] = "relay" /\ failures' = failures)
          => (proof'[r] = NoProof <=> CoveringBatches(Head(messages[r]).height) = {})]_vars

\* a proof for a message that is not the first element of a batch that is not
\* the first batch
C21_Witness ==
  \E held \in HeldProofs :
    /\ held[3].stateRootProof.index > 0
    /\ held[3].stateRootBatchHeader.prevTotalElements > 0
    /\ pc[held[1]] = "relay"

\* the inclusion proof of the state root at 0-based position i of a batch
SiblingsOf(stateRoots, i) == GetProof(MerkleTree(Leaves(Elements(stateRoots))), i)

\* the root of the tree the relayer builds over a batch
TreeRootOf(stateRoots) ==
  LET tree == MerkleTree(Leaves(Elements(stateRoots)))
  IN tree[CeilLog2(Len(Elements(stateRoots)))][0]

\* C22: for every batch and every index i inside it, folding leaf i upward
\* with the emitted siblings (sides by the bits of i, parent = hash(left ||
\* right)) gives the root of the padded tree, which is the batch root, and
\* there are log2(padded leaf count) siblings; so for the proofs relayers hold.
C22_InclusionProofValid ==
  /\ \A b \in 1..Len(batches) :
        LET stateRoots == batches[b].transaction.stateRoots
        IN \A i \in 0..(Len(stateRoots) - 1) :
             /\ FoldUp(Keccak256(stateRoots[i + 1]), i, SiblingsOf(stateRoots, i))
                  = TreeRootOf(stateRoots)
             /\ TreeRootOf(stateRoots) = BatchRoot(stateRoots)
             /\ 2 ^ Len(SiblingsOf(stateRoots, i)) = LeastPowerOfTwo(Len(stateRoots))
  /\ \A held \in HeldProofs :
        FoldUp(Keccak256(held[3].stateRoot), held[3].stateRootProof.index,
               held[3].stateRootProof.siblings)
          = BatchRoot(held[3].stateRootBatchHeader.stateRoots)

\* a relayer holds a two-sibling proof for a right-hand leaf
C22_Witness ==
  \E held \in HeldProofs :
    /\ Len(held[3].stateRootProof.siblings) = 2
    /\ held[3].stateRootProof.index % 2 = 1

\* C23: over a batch of n >= 1 state roots the tree has exactly N leaves, N the
\* least power of two >= n (1 for n = 1); leaf i is the hash of stateRoots[i]
\* for i < n and the hash of 32 zero bytes for n <= i < N.
C23_LeafPadding ==
  \A b \in 1..Len(batches) :
    LET stateRoots == batches[b].transaction.stateRoots
        n == Len(stateRoots)
        leaves == MerkleTree(Leaves(Elements(stateRoots)))[0]
    IN /\ n >= 1
       /\ \E k \in 0..n :
             /\ DOMAIN leaves = 0..(2 ^ k - 1)
             /\ 2 ^ k >= n
             /\ k > 0 => 2 ^ (k - 1) < n
       /\ n = 1 => DOMAIN leaves = {0}
       /\ \A i \in DOMAIN leaves :
             leaves[i] = IF i < n THEN Keccak256(stateRoots[i + 1]) ELSE Keccak256(Zero32)

\* a relayer holds a proof built over a batch of three state roots, padded to four leaves
C23_Witness ==
  \E held \in HeldProofs :
    /\ Len(held[3].stateRootBatchHeader.stateRoots) = 3
    /\ Len(held[3].stateRootProof.siblings) = 2

\* the scanned messages a relayer still has to handle in its running tick
HeldMessages == UNION {{messages[r][i] : i \in 1..Len(messages[r])} : r \in Relayers}

\* C24: block-offset round trip. Every scanned message carries the height
\* event.blockNumber - blockOffset of the event that emitted it, and every
\* eth_getProof request made for a message names, as its block tag, the block
\* number of that event (the tag is the byte-padded hex of height + blockOffset).
C24_BlockOffsetRoundTrip ==
  /\ \A message \in HeldMessages :
        /\ Sent(message.hash)
        /\ message.height = EventOf(message.hash).blockNumber - blockOffset
  /\ \A request \in proofRequests :
        /\ Sent(request.hash)
        /\ HexValue(request.blockTag) = EventOf(request.hash).blockNumber
        /\ HexValue(request.blockTag) = HeightOf(request.hash) + blockOffset

\* a proof was requested, under a non-zero offset, for a message emitted above
\* the first block
C24_Witness ==
  /\ blockOffset = MaxBlockOffset
  /\ \E request \in proofRequests :
        /\ HeightOf(request.hash) > 0
        /\ request.blockTag = <<0, HeightOf(request.hash) + MaxBlockOffset>>
        /\ \E message \in HeldMessages : message.hash = request.hash

\* the appended batches whose fraud proof window has passed
FinalizedBatches == {i \in 1..Len(batches) : ~InsideFraudProofWindow(batches[i])}

\* C25: the cursor-advance loop of a tick terminates. The batches it has fetched
\* in the running tick are pairwise different and no more than the finalized
\* batches, and a relayer inside the loop always leaves it.
C25_AdvanceLoopTerminates ==
  /\ [](\A r \in Relayers :
          /\ \A i, j \in 1..Len(jumped[r]) : jumped[r][i] = jumped[r][j] => i = j
          /\ Len(jumped[r]) <= Cardinality(FinalizedBatches))
  /\ \A r \in Relayers : (pc[r] = "advance") ~> (pc[r] # "advance")

\* the loop of one tick has ended after jumping over two batches, the first of
\* them holding more than one element
C25_Witness ==
  \E r \in Relayers :
    /\ pc[r] = "scan"
    /\ Len(jumped[r]) = 2
    /\ \E i \in 1..Len(batches) : batches[i].batchIndex = jumped[r][1] /\ batches[i].batchSize > 1

\* C26: batch truncation of the state batch submitter terminates. Every
\* iteration of the loop taken for a transaction longer than maxTxSize
\* strictly shrinks the batch, the batch that leaves the loop encodes to no
\* more than maxTxSize, and the loop is always left.
C26_TruncationTerminates ==
  /\ [](subPc = "truncate" /\ EncodedLength(Len(stateBatch)) > subOptions.maxTxSize
          => SpliceStart(Len(stateBatch)) < Len(stateBatch))
  /\ [](subPc = "submit" => EncodedLength(Len(stateBatch)) <= subOptions.maxTxSize)
  /\ (subPc = "truncate") ~> (subPc = "submit")

\* C27: range selection of the state batch submitter. A range in hand has
\* start < end, start = state commitment chain total elements + BLOCK_OFFSET,
\* end - start <= maxBatchSize and end <= transaction chain total elements;
\* _getBatchStartAndEnd returns a range exactly when start < end, and the
\* state commitment chain only grows in a round that has a range.
C27_RangeSelection ==
  /\ [](batchRange # <<>> =>
          /\ batchRange[1].start < batchRange[1].end
          /\ batchRange[1].start = TotalElements + BLOCK_OFFSET
          /\ batchRange[1].end - batchRange[1].start <= subOptions.maxBatchSize
          /\ batchRange[1].end <= l2Blocks
          /\ batchRange[1].end = EndBlock)
  /\ [](subPc # "idle" <=> batchRange # <<>>)
  /\ [][/\ (subPc = "idle" /\ subPc' = "build" => StartBlock < EndBlock)
        /\ (subPc = "idle" /\ lastSubmit' = "norange" /\ lastSubmit # "norange"
              => StartBlock >= EndBlock /\ batchRange' = <<>> /\ subPc' = "idle")
        /\ (batches' # batches => batchRange # <<>> /\ subPc = "submit")]_vars
  /\ [](subPc = "idle" /\ StartBlock >= EndBlock => ~ENABLED (SubmitterStep /\ batches' # batches))

\* a round without a range follows a round that submitted a batch cut to
\* maxBatchSize, with elements of the transaction chain left over
C27_Witness ==
  /\ lastSubmit = "norange"
  /\ Len(batches) >= 2
  /\ batches[1].batchSize = subOptions.maxBatchSize
  /\ TotalElements + BLOCK_OFFSET = l2Blocks
  /\ BLOCK_OFFSET = 1

\* C28: polling-interval sanity warning. A relayer whose initialization has run
\* has logged the polling-interval warning exactly when pollingInterval is
\* below 15000 ms or above 3600000 ms, and initialization fails for no other
\* reason than a negative starting height (nothing fails on its own in PollSpec).
C28_PollingIntervalWarning ==
  \A r \in Relayers :
    /\ pc[r] \notin {"new", "initFailed"} =>
         ("pollingInterval" \in warnings[r]
            <=> pollingInterval < 15000 \/ pollingInterval > 3600000)
    /\ pc[r] = "initFailed" => StartingHeightNegative(options.l2ChainStartingHeight)

====
